---- MODULE Spec2Model ----
(***************************************************************************)
(* colvarproxy: the interface between the collective variables module and  *)
(* the host program.  The model covers the atom registry (the atoms_*      *)
(* arrays, add_atom_slot, init_atom, clear_atom), the force accessors      *)
(* (get_atom_system_force, apply_atom_force) and the output channel        *)
(* bookkeeping (output_stream, close_output_stream).  The base class's     *)
(* defaults for the replica calls and for init_atom by residue and name    *)
(* are modelled as they stand.                                             *)
(*                                                                         *)
(* C++ indices are 0-based, TLA+ sequences are 1-based: element `index`    *)
(* of a std::vector is element index + 1 of the sequence.                  *)
(*                                                                         *)
(* What the header leaves to other files:                                  *)
(*  - init_atom(int) is pure virtual; it is modelled from its contract: a  *)
(*    request for an id in a live slot resolves to that slot and bumps     *)
(*    its count, any other request goes to add_atom_slot.                  *)
(*  - cvm::error(message, code) hands the message to proxy->error(), pure  *)
(*    virtual.  The sink either returns to the caller ("let the rest of    *)
(*    the program handle the error") or ends the process; the model takes  *)
(*    both.  After the process has ended no call is made.                  *)
(*  - the host fills the arrays at the start of a step, resets the colvar  *)
(*    forces, and reads them back at the end of the step.                  *)
(*  - cvm::real and the components of cvm::rvector take integer values.    *)
(*                                                                         *)
(* clear_atom does not return after its range check.  When the sink        *)
(* returns, atoms_ncopies[index] is evaluated with index outside the       *)
(* vector: the read faults, or yields a stray word, which is decremented   *)
(* when it is not zero.  The stray word is not an element in use of        *)
(* atoms_ncopies; the model records the access and keeps the elements in   *)
(* use as they are.                                                        *)
(*                                                                         *)
(* get_atom_system_force and apply_atom_force do not check their index;    *)
(* they are called with the index of an allocated slot.                    *)
(*                                                                         *)
(* The registry, the forces and the channels share no state, so each is    *)
(* also given a specification of its own: SpecRegistry, SpecForces (from   *)
(* the state after setup), SpecChannels.  SpecDefaults runs the base       *)
(* class's default calls next to requests and channel calls, from the      *)
(* state after setup.                                                      *)
(***************************************************************************)
EXTENDS Integers, Sequences, FiniteSets, TLC

VARIABLES
    atoms_ids,                \* std::vector<int>
    atoms_ncopies,            \* std::vector<size_t>
    atoms_masses,             \* std::vector<cvm::real>
    atoms_positions,          \* std::vector<cvm::rvector>
    atoms_total_forces,       \* std::vector<cvm::rvector>
    atoms_applied_forces,     \* std::vector<cvm::rvector>
    atoms_new_colvar_forces,  \* std::vector<cvm::rvector>
    output_files,             \* std::list<std::ostream *>: the handles, by position
    output_stream_names,      \* std::list<std::string>
    ofstreams,                \* the std::ofstream objects made by new, by handle
    phase,                    \* where the host is in its step: idle, loaded, calc, applied
    halted,                   \* the process has ended (error sink exit, or a crash)
    last,                     \* history: the most recent call, its argument and outcome
    reqlog,                   \* history: every init_atom(id) call and the index it returned
    nrel,                     \* history: per slot, the clear_atom calls that found its count > 0
    addlog,                   \* history: apply_atom_force calls since the forces were last reset
    steplog,                  \* history: apply_atom_force calls since the step began
    nclears,                  \* history: resets of the colvar forces since the step began
    prior_adds,               \* history: an earlier step of the run had forces applied
    held                      \* history: per name, the handle output_stream last returned
                              \* with no close_output_stream of that name since (0: none)

registry == << atoms_ids, atoms_ncopies, atoms_masses, atoms_positions,
               atoms_total_forces, atoms_applied_forces, atoms_new_colvar_forces >>

channels == << output_files, output_stream_names, ofstreams, held >>

hoststep == << phase, addlog, steplog, nclears, prior_adds >>

vars == << atoms_ids, atoms_ncopies, atoms_masses, atoms_positions,
           atoms_total_forces, atoms_applied_forces, atoms_new_colvar_forces,
           output_files, output_stream_names, ofstreams, phase,
           halted, last, reqlog, nrel, addlog, steplog, nclears, prior_adds,
           held >>

----------------------------------------------------------------------------
(* Bounds of the model *)

\* init_atom calls in one behaviour
MaxRequests == 4

\* Atom ids the host is asked for
AtomIds == {3, 7, 9}

\* apply_atom_force calls in one step
MaxAdds == 3

\* std::ofstream objects created in one behaviour
MaxStreams == 3

\* Names the module asks output channels for
ChannelNames == {"a", "b"}

\* Residue numbers, atom names and segment ids the module selects atoms by
ResidueIds == {1, 25}

AtomNames == {"CA"}

SegmentIds == {"", "PROA"}

\* Replicas named in send and receive calls, and buffer lengths
ReplicaIds == {0, 1}

BufLens == {0, 8}

\* Forces the module contributes
ForceDeltas == { << 1, 0, 0 >>, << 0, 1, 0 >> }

\* What the host supplies for the atoms at the start of a step: the atom at
\* position i gets the sample at i + shift, for a shift the host chooses
HostSamples ==
    << [mass |-> 12, pos |-> << 1, 0, 0 >>, total |-> << 2, 0, 1 >>,
        applied |-> << 1, 0, 0 >>],
       [mass |-> 16, pos |-> << 0, 1, 0 >>, total |-> << 0, 3, 0 >>,
        applied |-> << 0, 1, 2 >>],
       [mass |-> 1, pos |-> << 2, 2, 1 >>, total |-> << 1, 1, 1 >>,
        applied |-> << 0, 0, 0 >>] >>

HostSample(i, shift) == HostSamples[((i + shift) % Len(HostSamples)) + 1]

----------------------------------------------------------------------------
(* Types and constants of the program *)

\* Width of size_t taken for atoms_ncopies: the least the language guarantees
SizeBits == 16

SizeMod == 2 ^ SizeBits

\* Arithmetic on size_t is modulo 2^SizeBits
SizeT(x) == x % SizeMod

\* cvm::rvector(0.0)
ZeroVec == << 0, 0, 0 >>

\* cvm::rvector: operator+= and operator-, component by component
VecAdd(a, b) == << a[1] + b[1], a[2] + b[2], a[3] + b[3] >>

VecSub(a, b) == << a[1] - b[1], a[2] - b[2], a[3] - b[3] >>

\* Mutant: the last element goes, whatever the position
EraseAt_back(s, i) == SubSeq(s, 1, Len(s) - 1)

\* s without its element at position i: erase(iterator)
EraseAt(s, i) == [k \in 1..(Len(s) - 1) |-> IF k < i THEN s[k] ELSE s[k + 1]]

\* Status values returned by close_output_stream
COLVARS_OK == "COLVARS_OK"
COLVARS_ERROR == "COLVARS_ERROR"

\* Error codes passed to cvm::error
INPUT_ERROR == "INPUT_ERROR"
BUG_ERROR == "BUG_ERROR"
FILE_ERROR == "FILE_ERROR"
COLVARS_NOT_IMPLEMENTED == "COLVARS_NOT_IMPLEMENTED"
NoError == "none"

\* What the error sink (proxy->error(), pure virtual) does once it has logged:
\* it hands control back to the caller, or it ends the process.
SinkOutcomes == {"return", "exit"}

\* What evaluating atoms_ncopies[index] with index outside the vector can do:
\* the read faults, or it yields a stray word that is zero or not zero.
StrayReads == {"fault", "zero", "nonzero"}

NoCall == [op |-> "none", arg |-> 0, name |-> "", ret |-> 0, status |-> "",
           vec |-> ZeroVec, err |-> NoError, returned |-> TRUE,
           access |-> "none", pre |-> 0, flag |-> FALSE]

----------------------------------------------------------------------------
(* Atom registry *)

NumSlots == Len(atoms_ids)

ValidIndex(index) == index >= 0 /\ index < NumSlots

\* The lowest index of a slot that holds atom_id with atoms_ncopies > 0, or -1
LiveSlot(atom_id) ==
    LET live == {i \in 1..NumSlots : atoms_ids[i] = atom_id /\ atoms_ncopies[i] > 0}
    IN  IF live = {} THEN -1
        ELSE (CHOOSE i \in live : \A j \in live : i <= j) - 1

\* Mutant: the size returned in place of the last index
add_atom_slot_result_size == Len(atoms_ids')

\* Mutant: the index is computed from the size before the push_back
add_atom_slot_result_before == Len(atoms_ids) - 1

\* add_atom_slot: the value it returns, atoms_ids.size() - 1 after the push_back
add_atom_slot_result == Len(atoms_ids') - 1

\* Mutant: the new slot starts with no copies
add_atom_slot_no_copy(atom_id) ==
    /\ atoms_ids' = Append(atoms_ids, atom_id)
    /\ atoms_ncopies' = Append(atoms_ncopies, 0)
    /\ atoms_masses' = Append(atoms_masses, 1)
    /\ atoms_positions' = Append(atoms_positions, ZeroVec)
    /\ atoms_total_forces' = Append(atoms_total_forces, ZeroVec)
    /\ atoms_applied_forces' = Append(atoms_applied_forces, ZeroVec)
    /\ atoms_new_colvar_forces' = Append(atoms_new_colvar_forces, ZeroVec)

\* Mutant: the mass of the new slot starts at 0.0
add_atom_slot_mass_zero(atom_id) ==
    /\ atoms_ids' = Append(atoms_ids, atom_id)
    /\ atoms_ncopies' = Append(atoms_ncopies, 1)
    /\ atoms_masses' = Append(atoms_masses, 0)
    /\ atoms_positions' = Append(atoms_positions, ZeroVec)
    /\ atoms_total_forces' = Append(atoms_total_forces, ZeroVec)
    /\ atoms_applied_forces' = Append(atoms_applied_forces, ZeroVec)
    /\ atoms_new_colvar_forces' = Append(atoms_new_colvar_forces, ZeroVec)

\* Mutant: the push_back on atoms_applied_forces is left out
add_atom_slot_short(atom_id) ==
    /\ atoms_ids' = Append(atoms_ids, atom_id)
    /\ atoms_ncopies' = Append(atoms_ncopies, 1)
    /\ atoms_masses' = Append(atoms_masses, 1)
    /\ atoms_positions' = Append(atoms_positions, ZeroVec)
    /\ atoms_total_forces' = Append(atoms_total_forces, ZeroVec)
    /\ atoms_applied_forces' = atoms_applied_forces
    /\ atoms_new_colvar_forces' = Append(atoms_new_colvar_forces, ZeroVec)

\* add_atom_slot: one element pushed on each of the seven arrays
add_atom_slot(atom_id) ==
    /\ atoms_ids' = Append(atoms_ids, atom_id)
    /\ atoms_ncopies' = Append(atoms_ncopies, 1)
    /\ atoms_masses' = Append(atoms_masses, 1)
    /\ atoms_positions' = Append(atoms_positions, ZeroVec)
    /\ atoms_total_forces' = Append(atoms_total_forces, ZeroVec)
    /\ atoms_applied_forces' = Append(atoms_applied_forces, ZeroVec)
    /\ atoms_new_colvar_forces' = Append(atoms_new_colvar_forces, ZeroVec)

\* init_atom(int): pure virtual in the base class.  A request for an id that
\* occupies a live slot resolves to that slot and bumps its count; any other
\* request allocates a slot with add_atom_slot.
init_atom(atom_number) ==
    /\ ~halted
    /\ Len(reqlog) < MaxRequests
    /\ LET found == LiveSlot(atom_number)
       IN  IF found >= 0
           THEN /\ atoms_ncopies' =
                       [atoms_ncopies EXCEPT ![found + 1] = SizeT(@ + 1)]
                /\ UNCHANGED << atoms_ids, atoms_masses, atoms_positions,
                                atoms_total_forces, atoms_applied_forces,
                                atoms_new_colvar_forces >>
                /\ nrel' = nrel
                /\ reqlog' = Append(reqlog, [id |-> atom_number, index |-> found])
                /\ last' = [NoCall EXCEPT !.op = "init_atom", !.arg = atom_number,
                                          !.ret = found]
           ELSE /\ add_atom_slot(atom_number)
                /\ nrel' = Append(nrel, 0)
                /\ reqlog' = Append(reqlog, [id |-> atom_number,
                                             index |-> add_atom_slot_result])
                /\ last' = [NoCall EXCEPT !.op = "init_atom", !.arg = atom_number,
                                          !.ret = add_atom_slot_result]
    /\ UNCHANGED << halted, channels, hoststep >>

\* Mutant: the default resolves the atom as if the host supported it
init_atom_by_name_supported(residue, atom_name, segment_id) ==
    /\ ~halted
    /\ add_atom_slot(residue)
    /\ nrel' = Append(nrel, 0)
    /\ halted' = halted
    /\ last' = [NoCall EXCEPT !.op = "init_atom_by_name", !.arg = residue,
                              !.name = atom_name, !.ret = add_atom_slot_result]
    /\ UNCHANGED << reqlog, channels, hoststep >>

\* init_atom(residue, atom_name, segment_id), the base class's default:
\* COLVARS_NOT_IMPLEMENTED is reported through cvm::error, then -1 is returned
init_atom_by_name(residue, atom_name, segment_id) ==
    /\ ~halted
    /\ \E sink \in SinkOutcomes :
         /\ halted' = (sink = "exit")
         /\ last' = [NoCall EXCEPT !.op = "init_atom_by_name", !.arg = residue,
                                   !.name = atom_name,
                                   !.err = COLVARS_NOT_IMPLEMENTED,
                                   !.returned = (sink = "return"),
                                   !.ret = IF sink = "return" THEN -1 ELSE 0]
    /\ UNCHANGED << registry, reqlog, nrel, channels, hoststep >>

\* Mutant: the count is lowered without the test for zero
clear_atom_ncopies_unguarded(index) ==
    [atoms_ncopies EXCEPT ![index + 1] = SizeT(@ - 1)]

\* Mutant: the slot's element is erased from the array
clear_atom_ncopies_erase(index) == EraseAt(atoms_ncopies, index + 1)

\* clear_atom, lines 313-315: the new atoms_ncopies for an index inside the vector
clear_atom_ncopies(index) ==
    IF atoms_ncopies[index + 1] > 0
    THEN [atoms_ncopies EXCEPT ![index + 1] = SizeT(@ - 1)]
    ELSE atoms_ncopies

\* clear_atom(index).  The range check reports INPUT_ERROR through cvm::error
\* and, when the sink returns, control falls through to atoms_ncopies[index].
clear_atom(index) ==
    /\ ~halted
    /\ UNCHANGED << atoms_ids, atoms_masses, atoms_positions, atoms_total_forces,
                    atoms_applied_forces, atoms_new_colvar_forces, reqlog,
                    channels, hoststep >>
    /\ IF (index < 0) \/ (index >= Len(atoms_ids))
       THEN /\ UNCHANGED << atoms_ncopies, nrel >>
            /\ \E sink \in SinkOutcomes :
                 IF sink = "exit"
                 THEN /\ halted' = TRUE
                      /\ last' = [NoCall EXCEPT !.op = "clear_atom", !.arg = index,
                                    !.err = INPUT_ERROR, !.returned = FALSE]
                 ELSE \E word \in StrayReads :
                      /\ halted' = (word = "fault")
                      /\ last' = [NoCall EXCEPT !.op = "clear_atom", !.arg = index,
                                    !.err = INPUT_ERROR,
                                    !.returned = (word # "fault"),
                                    !.access = IF word = "nonzero"
                                               THEN "out_of_range_write"
                                               ELSE "out_of_range_read"]
       ELSE /\ atoms_ncopies' = clear_atom_ncopies(index)
            /\ nrel' = [nrel EXCEPT ![index + 1] =
                          IF atoms_ncopies[index + 1] > 0 THEN @ + 1 ELSE @]
            /\ halted' = halted
            /\ last' = [NoCall EXCEPT !.op = "clear_atom", !.arg = index,
                          !.access = "in_range",
                          !.pre = atoms_ncopies[index + 1]]

----------------------------------------------------------------------------
(* Forces *)

\* Mutant: the colvar force subtracted in place of the applied force
get_atom_system_force_colvar(index) ==
    VecSub(atoms_total_forces[index + 1], atoms_new_colvar_forces[index + 1])

\* get_atom_system_force: atoms_total_forces[index] - atoms_applied_forces[index]
get_atom_system_force(index) ==
    VecSub(atoms_total_forces[index + 1], atoms_applied_forces[index + 1])

\* Mutant: = in place of +=
apply_atom_force_assign(index, new_force) ==
    [atoms_new_colvar_forces EXCEPT ![index + 1] = new_force]

\* Mutant: -= in place of +=
apply_atom_force_subtract(index, new_force) ==
    [atoms_new_colvar_forces EXCEPT ![index + 1] = VecSub(@, new_force)]

\* Mutant: the force is added to every atom
apply_atom_force_every(index, new_force) ==
    [i \in 1..Len(atoms_new_colvar_forces) |->
        VecAdd(atoms_new_colvar_forces[i], new_force)]

\* apply_atom_force: atoms_new_colvar_forces[index] += new_force
apply_atom_force(index, new_force) ==
    [atoms_new_colvar_forces EXCEPT ![index + 1] = VecAdd(@, new_force)]

\* The module reads the system force of a registered atom
GetAtomSystemForce ==
    /\ ~halted
    /\ phase = "calc"
    /\ \E index \in 0..(NumSlots - 1) :
         last' = [NoCall EXCEPT !.op = "get_atom_system_force", !.arg = index,
                                !.vec = get_atom_system_force(index)]
    /\ UNCHANGED << registry, channels, hoststep, halted, reqlog, nrel >>

\* A component of the module contributes a force to a registered atom
ApplyAtomForce ==
    /\ ~halted
    /\ phase = "calc"
    /\ Len(steplog) < MaxAdds
    /\ \E index \in 0..(NumSlots - 1), new_force \in ForceDeltas :
         /\ atoms_new_colvar_forces' = apply_atom_force(index, new_force)
         /\ addlog' = Append(addlog, << index, new_force >>)
         /\ steplog' = Append(steplog, << index, new_force >>)
         /\ last' = [NoCall EXCEPT !.op = "apply_atom_force", !.arg = index,
                                   !.vec = new_force]
    /\ UNCHANGED << atoms_ids, atoms_ncopies, atoms_masses, atoms_positions,
                    atoms_total_forces, atoms_applied_forces, channels,
                    phase, nclears, prior_adds, halted, reqlog, nrel >>

(* The host's side of a step.  The base class holds the arrays; the host      *)
(* adapter fills them, resets the colvar forces, lets the module compute and  *)
(* reads the forces back.                                                     *)

\* The host begins a step and supplies mass, position, total and applied
\* force of every registered atom
HostBeginStep ==
    /\ ~halted
    /\ phase \in {"idle", "applied"}
    /\ \E shift \in 0..1 :
         /\ atoms_masses' = [i \in 1..NumSlots |-> HostSample(i, shift).mass]
         /\ atoms_positions' = [i \in 1..NumSlots |-> HostSample(i, shift).pos]
         /\ atoms_total_forces' =
                [i \in 1..NumSlots |-> HostSample(i, shift).total]
         /\ atoms_applied_forces' =
                [i \in 1..NumSlots |-> HostSample(i, shift).applied]
    /\ phase' = "loaded"
    /\ steplog' = << >>
    /\ nclears' = 0
    /\ prior_adds' = (prior_adds \/ steplog # << >>)
    /\ last' = [NoCall EXCEPT !.op = "host_begin_step"]
    /\ UNCHANGED << atoms_ids, atoms_ncopies, atoms_new_colvar_forces, channels,
                    addlog, halted, reqlog, nrel >>

\* The host resets the colvar forces and hands over to the module
HostResetForces ==
    /\ ~halted
    /\ phase = "loaded"
    /\ atoms_new_colvar_forces' = [i \in 1..NumSlots |-> ZeroVec]
    /\ addlog' = << >>
    /\ nclears' = nclears + 1
    /\ phase' = "calc"
    /\ last' = [NoCall EXCEPT !.op = "host_reset_forces"]
    /\ UNCHANGED << atoms_ids, atoms_ncopies, atoms_masses, atoms_positions,
                    atoms_total_forces, atoms_applied_forces, channels,
                    steplog, prior_adds, halted, reqlog, nrel >>

\* The host reads the colvar forces back at the end of the step
HostEndStep ==
    /\ ~halted
    /\ phase = "calc"
    /\ phase' = "applied"
    /\ last' = [NoCall EXCEPT !.op = "host_end_step"]
    /\ UNCHANGED << registry, channels, addlog, steplog, nclears,
                    prior_adds, halted, reqlog, nrel >>

----------------------------------------------------------------------------
(* Output channels *)

\* Mutant: the scan steps over the first position before it compares
ScanFor_skip_first(output_name) ==
    LET hits == {i \in 2..Len(output_files) : output_stream_names[i] = output_name}
    IN  IF hits = {} THEN 0 ELSE CHOOSE i \in hits : \A j \in hits : i <= j

\* The position at which the scan of output_stream and close_output_stream
\* stops: the first position of output_files whose name is output_name, or 0
ScanFor(output_name) ==
    LET hits == {i \in 1..Len(output_files) : output_stream_names[i] = output_name}
    IN  IF hits = {} THEN 0 ELSE CHOOSE i \in hits : \A j \in hits : i <= j

\* Mutant: the stream is not tested with is_open
output_stream_unchecked(output_name) ==
    /\ ~halted
    /\ LET osi == ScanFor(output_name)
       IN  IF osi # 0
           THEN /\ held' = [held EXCEPT ![output_name] = output_files[osi]]
                /\ last' = [NoCall EXCEPT !.op = "output_stream",
                              !.name = output_name, !.ret = output_files[osi],
                              !.pre = held[output_name]]
                /\ UNCHANGED << output_files, output_stream_names, ofstreams,
                                halted >>
           ELSE /\ Len(ofstreams) < MaxStreams
                /\ output_stream_names' = Append(output_stream_names, output_name)
                /\ \E is_open \in BOOLEAN :
                     LET os == Len(ofstreams) + 1
                     IN  /\ ofstreams' = Append(ofstreams,
                                [name |-> output_name, is_open |-> is_open])
                         /\ output_files' = Append(output_files, os)
                         /\ held' = [held EXCEPT ![output_name] = os]
                         /\ halted' = halted
                         /\ last' = [NoCall EXCEPT !.op = "output_stream",
                                       !.name = output_name, !.ret = os,
                                       !.pre = held[output_name]]
    /\ UNCHANGED << registry, hoststep, reqlog, nrel >>

\* output_stream(output_name).  is_open says whether the new std::ofstream
\* opened its file.
output_stream(output_name) ==
    /\ ~halted
    /\ LET osi == ScanFor(output_name)
       IN  IF osi # 0
           THEN /\ held' = [held EXCEPT ![output_name] = output_files[osi]]
                /\ last' = [NoCall EXCEPT !.op = "output_stream",
                              !.name = output_name, !.ret = output_files[osi],
                              !.pre = held[output_name]]
                /\ UNCHANGED << output_files, output_stream_names, ofstreams,
                                halted >>
           ELSE /\ Len(ofstreams) < MaxStreams
                /\ output_stream_names' = Append(output_stream_names, output_name)
                /\ \E is_open \in BOOLEAN, sink \in SinkOutcomes :
                     LET os == Len(ofstreams) + 1
                     IN  /\ ofstreams' = Append(ofstreams,
                                [name |-> output_name, is_open |-> is_open])
                         /\ IF ~is_open /\ sink = "exit"
                            THEN /\ halted' = TRUE
                                 /\ UNCHANGED << output_files, held >>
                                 /\ last' = [NoCall EXCEPT !.op = "output_stream",
                                               !.name = output_name,
                                               !.err = FILE_ERROR,
                                               !.pre = held[output_name],
                                               !.returned = FALSE]
                            ELSE /\ output_files' = Append(output_files, os)
                                 /\ held' = [held EXCEPT ![output_name] = os]
                                 /\ halted' = halted
                                 /\ last' = [NoCall EXCEPT !.op = "output_stream",
                                               !.name = output_name, !.ret = os,
                                               !.pre = held[output_name],
                                               !.err = IF is_open THEN NoError
                                                       ELSE FILE_ERROR]
    /\ UNCHANGED << registry, hoststep, reqlog, nrel >>

\* Mutant: closing a name that is not there passes silently
close_output_stream_silent(output_name) ==
    /\ ~halted
    /\ held' = [held EXCEPT ![output_name] = 0]
    /\ LET osi == ScanFor(output_name)
       IN  IF osi # 0
           THEN /\ ofstreams' = [ofstreams EXCEPT
                                   ![output_files[osi]].is_open = FALSE]
                /\ output_files' = EraseAt(output_files, osi)
                /\ output_stream_names' = EraseAt(output_stream_names, osi)
                /\ last' = [NoCall EXCEPT !.op = "close_output_stream",
                              !.name = output_name, !.status = COLVARS_OK]
           ELSE /\ UNCHANGED << output_files, output_stream_names, ofstreams >>
                /\ last' = [NoCall EXCEPT !.op = "close_output_stream",
                              !.name = output_name, !.status = COLVARS_OK]
    /\ UNCHANGED << registry, hoststep, reqlog, nrel, halted >>

\* close_output_stream(output_name)
close_output_stream(output_name) ==
    /\ ~halted
    /\ held' = [held EXCEPT ![output_name] = 0]
    /\ LET osi == ScanFor(output_name)
       IN  IF osi # 0
           THEN /\ ofstreams' = [ofstreams EXCEPT
                                   ![output_files[osi]].is_open = FALSE]
                /\ output_files' = EraseAt(output_files, osi)
                /\ output_stream_names' = EraseAt(output_stream_names, osi)
                /\ halted' = halted
                /\ last' = [NoCall EXCEPT !.op = "close_output_stream",
                              !.name = output_name, !.status = COLVARS_OK]
           ELSE /\ UNCHANGED << output_files, output_stream_names, ofstreams >>
                /\ \E sink \in SinkOutcomes :
                     /\ halted' = (sink = "exit")
                     /\ last' = [NoCall EXCEPT !.op = "close_output_stream",
                                   !.name = output_name, !.err = BUG_ERROR,
                                   !.returned = (sink = "return"),
                                   !.status = IF sink = "return"
                                              THEN COLVARS_ERROR ELSE ""]
    /\ UNCHANGED << registry, hoststep, reqlog, nrel >>

----------------------------------------------------------------------------
(* Replica communication: the defaults of the base class *)

\* replica_enabled(): return false
replica_enabled == FALSE

\* replica_index(): return 0
replica_index == 0

\* replica_num(): return 1
replica_num == 1

\* Mutant: the receive reports success
replica_comm_recv_ok(msg_data, buf_len, src_rep) == COLVARS_OK

\* replica_comm_recv(msg_data, buf_len, src_rep): return COLVARS_NOT_IMPLEMENTED
replica_comm_recv(msg_data, buf_len, src_rep) == COLVARS_NOT_IMPLEMENTED

\* replica_comm_send(msg_data, msg_len, dest_rep): return COLVARS_NOT_IMPLEMENTED
replica_comm_send(msg_data, msg_len, dest_rep) == COLVARS_NOT_IMPLEMENTED

ReplicaEnabled ==
    /\ ~halted
    /\ last' = [NoCall EXCEPT !.op = "replica_enabled", !.flag = replica_enabled]
    /\ UNCHANGED << registry, channels, hoststep, halted, reqlog, nrel >>

ReplicaIndex ==
    /\ ~halted
    /\ last' = [NoCall EXCEPT !.op = "replica_index", !.ret = replica_index]
    /\ UNCHANGED << registry, channels, hoststep, halted, reqlog, nrel >>

ReplicaNum ==
    /\ ~halted
    /\ last' = [NoCall EXCEPT !.op = "replica_num", !.ret = replica_num]
    /\ UNCHANGED << registry, channels, hoststep, halted, reqlog, nrel >>

\* replica_comm_barrier(): the body is empty, the call returns at once
ReplicaCommBarrier ==
    /\ ~halted
    /\ last' = [NoCall EXCEPT !.op = "replica_comm_barrier"]
    /\ UNCHANGED << registry, channels, hoststep, halted, reqlog, nrel >>

ReplicaCommRecv ==
    /\ ~halted
    /\ \E buf_len \in BufLens, src_rep \in ReplicaIds :
         last' = [NoCall EXCEPT !.op = "replica_comm_recv", !.arg = src_rep,
                    !.pre = buf_len,
                    !.status = replica_comm_recv("", buf_len, src_rep)]
    /\ UNCHANGED << registry, channels, hoststep, halted, reqlog, nrel >>

ReplicaCommSend ==
    /\ ~halted
    /\ \E msg_len \in BufLens, dest_rep \in ReplicaIds :
         last' = [NoCall EXCEPT !.op = "replica_comm_send", !.arg = dest_rep,
                    !.pre = msg_len,
                    !.status = replica_comm_send("", msg_len, dest_rep)]
    /\ UNCHANGED << registry, channels, hoststep, halted, reqlog, nrel >>

----------------------------------------------------------------------------
(* Specification *)

Init ==
    /\ atoms_ids = << >>
    /\ atoms_ncopies = << >>
    /\ atoms_masses = << >>
    /\ atoms_positions = << >>
    /\ atoms_total_forces = << >>
    /\ atoms_applied_forces = << >>
    /\ atoms_new_colvar_forces = << >>
    /\ halted = FALSE
    /\ last = NoCall
    /\ reqlog = << >>
    /\ nrel = << >>
    /\ output_files = << >>
    /\ output_stream_names = << >>
    /\ ofstreams = << >>
    /\ phase = "idle"
    /\ addlog = << >>
    /\ steplog = << >>
    /\ nclears = 0
    /\ prior_adds = FALSE
    /\ held = [n \in ChannelNames |-> 0]

InitAtom == \E atom_number \in AtomIds : init_atom(atom_number)

ClearAtom == \E index \in -1..MaxRequests : clear_atom(index)

OutputStream == \E output_name \in ChannelNames : output_stream(output_name)

CloseOutputStream ==
    \E output_name \in ChannelNames : close_output_stream(output_name)

InitAtomByName ==
    \E residue \in ResidueIds, atom_name \in AtomNames, segment_id \in SegmentIds :
        init_atom_by_name(residue, atom_name, segment_id)

Next ==
    \/ InitAtom
    \/ InitAtomByName
    \/ ClearAtom
    \/ GetAtomSystemForce
    \/ ApplyAtomForce
    \/ HostBeginStep
    \/ HostResetForces
    \/ HostEndStep
    \/ OutputStream
    \/ CloseOutputStream
    \/ ReplicaEnabled
    \/ ReplicaIndex
    \/ ReplicaNum
    \/ ReplicaCommBarrier
    \/ ReplicaCommRecv
    \/ ReplicaCommSend

Spec == Init /\ [][Next]_vars

\* The registry alone: requests and releases
NextRegistry == InitAtom \/ ClearAtom

SpecRegistry == Init /\ [][NextRegistry]_vars

\* The channels alone
NextChannels == OutputStream \/ CloseOutputStream

SpecChannels == Init /\ [][NextChannels]_vars

\* The state once the module has set up its atoms with init_atom(7),
\* init_atom(3), init_atom(7)
InitAfterSetup ==
    /\ atoms_ids = << 7, 3 >>
    /\ atoms_ncopies = << 2, 1 >>
    /\ atoms_masses = << 1, 1 >>
    /\ atoms_positions = << ZeroVec, ZeroVec >>
    /\ atoms_total_forces = << ZeroVec, ZeroVec >>
    /\ atoms_applied_forces = << ZeroVec, ZeroVec >>
    /\ atoms_new_colvar_forces = << ZeroVec, ZeroVec >>
    /\ halted = FALSE
    /\ last = [NoCall EXCEPT !.op = "init_atom", !.arg = 7, !.ret = 0]
    /\ reqlog = << [id |-> 7, index |-> 0], [id |-> 3, index |-> 1],
                   [id |-> 7, index |-> 0] >>
    /\ nrel = << 0, 0 >>
    /\ output_files = << >>
    /\ output_stream_names = << >>
    /\ ofstreams = << >>
    /\ phase = "idle"
    /\ addlog = << >>
    /\ steplog = << >>
    /\ nclears = 0
    /\ prior_adds = FALSE
    /\ held = [n \in ChannelNames |-> 0]

\* The steps of a run: the host's step cycle, the module's force calls, and
\* atoms requested while the run goes on
NextForces ==
    \/ InitAtom
    \/ GetAtomSystemForce
    \/ ApplyAtomForce
    \/ HostBeginStep
    \/ HostResetForces
    \/ HostEndStep

SpecForces == InitAfterSetup /\ [][NextForces]_vars

\* The defaults of the base class, called while atoms are requested and
\* channels are opened and closed
NextDefaults ==
    \/ InitAtom
    \/ InitAtomByName
    \/ OutputStream
    \/ CloseOutputStream
    \/ ReplicaEnabled
    \/ ReplicaIndex
    \/ ReplicaNum
    \/ ReplicaCommBarrier
    \/ ReplicaCommRecv
    \/ ReplicaCommSend

SpecDefaults == InitAfterSetup /\ [][NextDefaults]_vars

----------------------------------------------------------------------------
(* Properties *)

\* The ids requested so far, in order
RequestIds == [k \in 1..Len(reqlog) |-> reqlog[k].id]

\* The indices init_atom returned so far, in order
RequestIndices == [k \in 1..Len(reqlog) |-> reqlog[k].index]

\* The number of init_atom calls that resolved to slot index
Requests(index) == Cardinality({k \in 1..Len(reqlog) : reqlog[k].index = index})

\* d1 + ... + dN over the entries of log that name index, in call order
RECURSIVE SumLog(_, _)
SumLog(log, index) ==
    IF log = << >> THEN ZeroVec
    ELSE LET e == log[Len(log)]
         IN  VecAdd(SumLog(SubSeq(log, 1, Len(log) - 1), index),
                    IF e[1] = index THEN e[2] ELSE ZeroVec)

\* C1: an init_atom call for an id that occupies a live slot returns that
\* slot's index and allocates nothing; a call for an id held by no slot returns
\* the number of slots allocated before the call, an index no earlier call
\* returned.
C1_RequestResolves ==
    [][ Len(reqlog') = Len(reqlog) + 1 =>
          LET id == reqlog'[Len(reqlog')].id
              r  == reqlog'[Len(reqlog')].index
          IN  /\ (\E i \in 1..NumSlots : atoms_ids[i] = id /\ atoms_ncopies[i] > 0)
                    => /\ r >= 0 /\ r < NumSlots
                       /\ atoms_ids[r + 1] = id
                       /\ atoms_ncopies[r + 1] > 0
                       /\ Len(atoms_ids') = Len(atoms_ids)
              /\ (\A i \in 1..NumSlots : atoms_ids[i] # id)
                    => /\ r = NumSlots
                       /\ Len(atoms_ids') = NumSlots + 1
                       /\ atoms_ids'[r + 1] = id
                       /\ \A k \in 1..Len(reqlog) : reqlog[k].index # r
      ]_vars

\* C1 witness: the same id requested twice resolved to one index, and a third
\* request, for another id, got the next index
C1_Witness ==
    /\ Len(reqlog) >= 3
    /\ reqlog[1].id = reqlog[2].id /\ reqlog[1].index = 0 /\ reqlog[2].index = 0
    /\ reqlog[3].id # reqlog[1].id /\ reqlog[3].index = 1

C3_ForceAccumulates ==
    \A i \in 1..NumSlots : atoms_new_colvar_forces[i] = SumLog(addlog, i - 1)

\* C3 witness: (1,0,0) and (0,1,0) applied to index 0 with a force on index 1
\* in between
C3_Witness ==
    /\ addlog = << << 0, << 1, 0, 0 >> >>, << 1, << 1, 0, 0 >> >>,
                   << 0, << 0, 1, 0 >> >> >>
    /\ atoms_new_colvar_forces[1] = << 1, 1, 0 >>
    /\ atoms_new_colvar_forces[2] = << 1, 0, 0 >>

C5_SystemForce ==
    /\ [](last.op = "get_atom_system_force" =>
            \A k \in 1..3 :
               last.vec[k] = atoms_total_forces[last.arg + 1][k]
                               - atoms_applied_forces[last.arg + 1][k])
    /\ [][ last'.op = "apply_atom_force" =>
             \A index \in 0..(NumSlots - 1) :
                get_atom_system_force(index)' = get_atom_system_force(index)
       ]_vars

\* C5 witness: the system force read for an atom that has a colvar force pending
C5_Witness ==
    /\ last.op = "get_atom_system_force"
    /\ atoms_new_colvar_forces[last.arg + 1] # ZeroVec
    /\ last.vec # ZeroVec
    /\ atoms_applied_forces[last.arg + 1] # ZeroVec

\* The open std::ofstream objects that were created for name n
OpenStreams(n) ==
    {os \in 1..Len(ofstreams) : ofstreams[os].name = n /\ ofstreams[os].is_open}

\* C6: no name has two entries in the bookkeeping or two open streams, and
\* an output_stream call for a name returns the handle the call before it for
\* that name returned, unless the name was closed in between.
C6_OneChannelPerName ==
    /\ \A i, j \in 1..Len(output_stream_names) :
          i # j => output_stream_names[i] # output_stream_names[j]
    /\ \A n \in ChannelNames : Cardinality(OpenStreams(n)) <= 1
    /\ (last.op = "output_stream" /\ last.returned /\ last.pre # 0)
          => last.ret = last.pre

\* C6 witness: with two channels open, a second request for the second name
\* returned its handle again
C6_Witness ==
    /\ last.op = "output_stream" /\ last.returned
    /\ last.pre # 0 /\ last.ret = last.pre
    /\ Len(output_files) = 2 /\ output_files[2] = last.ret
    /\ output_stream_names[2] = last.name

C8_InvalidReleaseTouchesNothing ==
    [][ (last'.op = "clear_atom" /\ ~ValidIndex(last'.arg))
          => /\ last'.err = INPUT_ERROR
             /\ last'.access = "none"
             /\ UNCHANGED registry
      ]_vars

ReplicaOps == {"replica_enabled", "replica_index", "replica_num",
               "replica_comm_barrier", "replica_comm_recv", "replica_comm_send"}

\* C11: with the base class's replica defaults, in every state
\* replica_enabled() is false, replica_index() is 0 and replica_num() is 1;
\* replica_comm_barrier returns at once, replica_comm_recv and
\* replica_comm_send return COLVARS_NOT_IMPLEMENTED, and none of these calls
\* changes the registry or the channels.
C11_ReplicaDefaults ==
    /\ [](/\ replica_enabled = FALSE /\ replica_index = 0 /\ replica_num = 1
          /\ last.op = "replica_enabled" => last.flag = FALSE
          /\ last.op = "replica_index" => last.ret = 0
          /\ last.op = "replica_num" => last.ret = 1
          /\ last.op \in {"replica_comm_recv", "replica_comm_send"}
                => last.status = COLVARS_NOT_IMPLEMENTED
          /\ last.op \in ReplicaOps => last.returned /\ last.err = NoError)
    /\ [][ last'.op \in ReplicaOps
             => /\ UNCHANGED << registry, channels, halted >>
       ]_vars

\* C11 witness: a receive answered with COLVARS_NOT_IMPLEMENTED while atoms
\* are registered and a channel is open
C11_Witness ==
    /\ last.op = "replica_comm_recv" /\ last.status = COLVARS_NOT_IMPLEMENTED
    /\ last.returned /\ ~halted
    /\ NumSlots >= 3
    /\ Len(output_files) >= 1 /\ ofstreams[output_files[1]].is_open

\* C12: an output_stream call for a name that has no entry, whose new
\* std::ofstream does not open, reports FILE_ERROR through cvm::error in that
\* same call, whether the sink returns or not.
C12_OpenFailureReported ==
    [][ (Len(ofstreams') = Len(ofstreams) + 1
           /\ ~ofstreams'[Len(ofstreams')].is_open)
          => /\ last'.op = "output_stream"
             /\ last'.name = ofstreams'[Len(ofstreams')].name
             /\ last'.err = FILE_ERROR
      ]_vars

\* C12 witness: with one channel open, the open for a second name failed and
\* FILE_ERROR was reported
C12_Witness ==
    /\ last.op = "output_stream" /\ last.err = FILE_ERROR
    /\ Len(ofstreams) = 2
    /\ ofstreams[1].is_open /\ ~ofstreams[2].is_open
    /\ ofstreams[2].name = last.name /\ ofstreams[1].name # last.name

\* C13: the base class's init_atom(residue, atom_name, segment_id) reports
\* COLVARS_NOT_IMPLEMENTED through cvm::error, returns -1 when it returns,
\* and allocates no slot: the registry is as it was.
C13_ByNameUnsupported ==
    [][ last'.op = "init_atom_by_name"
          => /\ last'.err = COLVARS_NOT_IMPLEMENTED
             /\ last'.returned => last'.ret = -1
             /\ UNCHANGED << registry, reqlog >>
      ]_vars

\* C13 witness: the call returned -1 with three slots allocated, the last
\* of them by the request before
C13_Witness ==
    /\ last.op = "init_atom_by_name" /\ last.returned /\ last.ret = -1
    /\ last.err = COLVARS_NOT_IMPLEMENTED
    /\ NumSlots = 3 /\ Len(reqlog) = 4 /\ reqlog[4].index = 2

\* C14: a step that allocates a slot returns the number of slots there were
\* before it, gives the new slot the requested id, count 1, mass 1.0 and zero
\* position, total force, applied force and colvar force, and leaves every
\* element of every slot allocated before as it was.
C14_NewSlot ==
    [][ Len(atoms_ids') = Len(atoms_ids) + 1
          => LET n == Len(atoms_ids)
             IN  /\ last'.op = "init_atom" /\ last'.ret = n
                 /\ atoms_ids'[n + 1] = last'.arg
                 /\ atoms_ncopies'[n + 1] = 1
                 /\ atoms_masses'[n + 1] = 1
                 /\ atoms_positions'[n + 1] = ZeroVec
                 /\ atoms_total_forces'[n + 1] = ZeroVec
                 /\ atoms_applied_forces'[n + 1] = ZeroVec
                 /\ atoms_new_colvar_forces'[n + 1] = ZeroVec
                 /\ \A i \in 1..n :
                       /\ atoms_ids'[i] = atoms_ids[i]
                       /\ atoms_ncopies'[i] = atoms_ncopies[i]
                       /\ atoms_masses'[i] = atoms_masses[i]
                       /\ atoms_positions'[i] = atoms_positions[i]
                       /\ atoms_total_forces'[i] = atoms_total_forces[i]
                       /\ atoms_applied_forces'[i] = atoms_applied_forces[i]
                       /\ atoms_new_colvar_forces'[i] = atoms_new_colvar_forces[i]
      ]_vars

\* C14 witness: a third slot allocated in the middle of a step, next to slots
\* that hold host data and a colvar force
C14_Witness ==
    /\ last.op = "init_atom" /\ last.ret = 2 /\ NumSlots = 3
    /\ atoms_ids[3] = last.arg /\ atoms_ncopies[3] = 1 /\ atoms_masses[3] = 1
    /\ atoms_positions[3] = ZeroVec /\ atoms_new_colvar_forces[3] = ZeroVec
    /\ atoms_masses[1] # 1 /\ atoms_positions[1] # ZeroVec
    /\ atoms_total_forces[2] # ZeroVec
    /\ atoms_new_colvar_forces[1] # ZeroVec

\* C15: no init_atom call, for whatever id, returns the index of a slot
\* whose count has dropped to zero: the request allocates a new slot; id 7
\* requested, released and requested again gets index 0 and then index 1.
C15_RetiredNeverReused ==
    [][ Len(reqlog') = Len(reqlog) + 1
          => LET r == reqlog'[Len(reqlog')].index
             IN  /\ \A i \in 1..NumSlots :
                       atoms_ncopies[i] = 0
                          => /\ r # i - 1
                             /\ atoms_ncopies'[i] = 0
                             /\ atoms_ids'[i] = atoms_ids[i]
                 /\ (\A i \in 1..NumSlots :
                        atoms_ids[i] = reqlog'[Len(reqlog')].id
                           => atoms_ncopies[i] = 0)
                       => r = NumSlots /\ Len(atoms_ids') = NumSlots + 1
                 /\ (reqlog = << [id |-> 7, index |-> 0] >>
                       /\ atoms_ncopies = << 0 >>
                       /\ reqlog'[2].id = 7)
                       => r = 1
      ]_vars

\* C15 witness: 7 requested, released, requested again: indices 0 and 1,
\* slot 0 still retired
C15_Witness ==
    /\ reqlog = << [id |-> 7, index |-> 0], [id |-> 7, index |-> 1] >>
    /\ nrel = << 1, 0 >>
    /\ atoms_ids = << 7, 7 >> /\ atoms_ncopies = << 0, 1 >>
    /\ last.op = "init_atom" /\ last.ret = 1

\* The handle recorded for name n, or 0 when n has no entry
HandleOf(n) == IF ScanFor(n) = 0 THEN 0 ELSE output_files[ScanFor(n)]

\* C16: a close_output_stream call that returns COLVARS_OK closes the stream
\* of that name and removes its entry and no other: every other name keeps
\* its handle and every other stream its state; an output_stream call for a
\* name closed since it was last asked for creates a new stream.
C16_CloseRemovesOneEntry ==
    [][ \A name \in ChannelNames :
        /\ (last'.op = "close_output_stream" /\ last'.name = name
               /\ last'.status = COLVARS_OK)
            => /\ HandleOf(name) # 0
               /\ HandleOf(name)' = 0
               /\ \A i \in 1..Len(output_stream_names') :
                     output_stream_names'[i] # name
               /\ ~ofstreams'[HandleOf(name)].is_open
               /\ Len(output_files') = Len(output_files) - 1
               /\ Len(output_stream_names') = Len(output_stream_names) - 1
               /\ \A n \in ChannelNames \ {name} : HandleOf(n)' = HandleOf(n)
               /\ \A os \in 1..Len(ofstreams) :
                     os # HandleOf(name) => ofstreams'[os] = ofstreams[os]
        /\ (last'.op = "output_stream" /\ last'.name = name /\ last'.returned
               /\ held[name] = 0)
            => /\ Len(ofstreams') = Len(ofstreams) + 1
               /\ last'.ret = Len(ofstreams')
               /\ \A os \in 1..Len(ofstreams) : last'.ret # os
               /\ HandleOf(name)' = last'.ret
      ]_vars

\* C16 witness: "a" was opened first and closed while "b" stayed open, and
\* the request for "a" after that got a third stream
C16_Witness ==
    /\ last.op = "output_stream" /\ last.name = "a" /\ last.ret = 3
    /\ ofstreams[1].name = "a" /\ ~ofstreams[1].is_open
    /\ ofstreams[2].name = "b" /\ ofstreams[2].is_open
    /\ ofstreams[3].name = "a" /\ ofstreams[3].is_open
    /\ output_stream_names = << "b", "a" >> /\ output_files = << 2, 3 >>

\* C17: apply_atom_force(index, new_force) on the index of a slot adds
\* new_force once to the colvar force of that index and changes nothing
\* else: not the colvar force of another index, not the id, count, mass,
\* position, total force or applied force of any slot.
C17_AddForceFrame ==
    [][ last'.op = "apply_atom_force"
          => /\ ValidIndex(last'.arg)
             /\ atoms_new_colvar_forces'[last'.arg + 1] =
                   VecAdd(atoms_new_colvar_forces[last'.arg + 1], last'.vec)
             /\ Len(atoms_new_colvar_forces') = Len(atoms_new_colvar_forces)
             /\ \A i \in 1..NumSlots :
                   i # last'.arg + 1
                      => atoms_new_colvar_forces'[i] = atoms_new_colvar_forces[i]
             /\ UNCHANGED << atoms_ids, atoms_ncopies, atoms_masses,
                             atoms_positions, atoms_total_forces,
                             atoms_applied_forces >>
      ]_vars

\* C17 witness: a force added to index 1 of three slots, with a colvar force
\* standing on index 0 and host data in the arrays
C17_Witness ==
    /\ last.op = "apply_atom_force" /\ last.arg = 1 /\ NumSlots = 3
    /\ atoms_new_colvar_forces[2] = last.vec
    /\ atoms_new_colvar_forces[1] # ZeroVec
    /\ atoms_new_colvar_forces[1] # last.vec
    /\ atoms_new_colvar_forces[3] = ZeroVec
    /\ atoms_total_forces[1] # ZeroVec /\ atoms_applied_forces[1] # ZeroVec

\* C18: whatever output_stream and close_output_stream calls were made, also
\* calls whose open failed and whose error report did not return, the list
\* of handles and the list of names have the same length, and the handle at
\* each position is the stream that was created for the name at that position.
C18_ListsAligned ==
    /\ Len(output_files) = Len(output_stream_names)
    /\ \A i \in 1..Len(output_files) :
          /\ i <= Len(output_stream_names)
          /\ ofstreams[output_files[i]].name = output_stream_names[i]

\* C19: every recorded handle is a stream that is open, and output_stream
\* never returns a stream that failed to open: a failed open records nothing,
\* so that the next call for the name tries the open again.
C19_RecordedChannelsOpen ==
    /\ \A i \in 1..Len(output_files) : ofstreams[output_files[i]].is_open
    /\ (last.op = "output_stream" /\ last.returned)
          => ofstreams[last.ret].is_open

\* C20: after any sequence of init_atom and clear_atom calls the seven
\* arrays have one length, and every index init_atom returned is an index of
\* each of them.
C20_ArraysSameLength ==
    /\ Len(atoms_ncopies) = Len(atoms_ids)
    /\ Len(atoms_masses) = Len(atoms_ids)
    /\ Len(atoms_positions) = Len(atoms_ids)
    /\ Len(atoms_total_forces) = Len(atoms_ids)
    /\ Len(atoms_applied_forces) = Len(atoms_ids)
    /\ Len(atoms_new_colvar_forces) = Len(atoms_ids)
    /\ \A k \in 1..Len(reqlog) :
          /\ reqlog[k].index >= 0
          /\ reqlog[k].index < Len(atoms_ids)
          /\ reqlog[k].index < Len(atoms_ncopies)
          /\ reqlog[k].index < Len(atoms_masses)
          /\ reqlog[k].index < Len(atoms_positions)
          /\ reqlog[k].index < Len(atoms_total_forces)
          /\ reqlog[k].index < Len(atoms_applied_forces)
          /\ reqlog[k].index < Len(atoms_new_colvar_forces)

\* C20 witness: four slots allocated, one of them released to zero, and a
\* clear_atom call with an index outside the arrays made last
C20_Witness ==
    /\ NumSlots = 4 /\ Len(atoms_new_colvar_forces) = 4
    /\ \E i \in 1..NumSlots : atoms_ncopies[i] = 0
    /\ last.op = "clear_atom" /\ last.arg = 4 /\ last.returned

====
